---------------------------- MODULE Spec2Model ----------------------------
(***************************************************************************)
(* Model of dems/make_dems.py (main) and sif_template.py                   *)
(* (generate_sif_file) of greenland_inversions.                            *)
(*                                                                         *)
(* Python values are modelled as follows.                                  *)
(*   - a 1-D array is a record [n, d] with d a function on 0..n-1;         *)
(*   - a 2-D array is a record [nr, nc, d] with d a function on            *)
(*     (0..nr-1) \X (0..nc-1), indexed d[<<i, j>>] for a[i, j];            *)
(*   - a text file is a sequence of lines, a line a sequence of numbers    *)
(*     (the tokens that str.format separates by blanks);                   *)
(*   - floats are integers: the program only compares cells with the       *)
(*     sentinel and copies them, so every cell of the input carries a      *)
(*     number that names its field and its original position.              *)
(***************************************************************************)
EXTENDS Integers, Sequences, FiniteSets, TLC

VARIABLES
  pc,          \* position in main / driver of the pure-function specifications
  dem_source,  \* value of --dem
  status,      \* process exit status, -1 while running
  raised,      \* the uncaught exception and where it was raised
  out,         \* lines printed on stdout
  data,        \* ../data: the raw velocity grid of each glacier and the surface grid
  fs0,         \* the file system when the program starts
  net,         \* whether the remote host serves the requested files
  dirs,        \* glacier directories that exist
  fs,          \* the file system: path -> [exists, lines]
  reads,       \* raw files handed to read_geodat so far
  downloads,   \* files wget was started for
  k,           \* index of the running for-loop over glaciers
  x, y,        \* axes
  vx, vy, ex, ey, \* fields (s of the surface step is held in vx)
  I, J,        \* row and column indices returned by np.where
  box,         \* <<imin, imax, jmin, jmax>>
  nx, ny,
  opened,      \* paths of the file objects that are open for writing
  sif          \* state of one call of generate_sif_file

vars == <<pc, dem_source, status, raised, out, data, fs0, net, dirs, fs, reads,
          downloads, k, x, y, vx, vy, ex, ey, I, J, box, nx, ny, opened, sif>>

-----------------------------------------------------------------------------
(* Bounds of the model *)

\* largest number of rows and of columns of a raw velocity grid
MaxDim == 6
\* largest number of rows / columns of the Jakobshavn surface grid
MaxSurf == 2

-----------------------------------------------------------------------------
(* Program constants *)

\* -2.0e+9, the value of a cell without a measurement
Sentinel == -2000000000
\* the number of cells added on each side of the measured region
Margin == 2

Glaciers == {"helheim", "kangerd", "jakobshavn"}
\* velocity_data.keys(), in insertion order
VelOrder == <<"helheim", "kangerd", "jakobshavn">>
BedOrder == <<"helheim", "kangerd", "jakobshavn">>
SurfOrder == <<"helheim", "kangerd">>
DemSources == {"morlighem", "cresis"}
VelFiles == <<"UDEM.xy", "VDEM.xy", "EUDEM.xy", "EVDEM.xy">>
VelFileSet == {VelFiles[n] : n \in 1..4}
FileNames == VelFileSet \cup {"zbDEM.xy", "zsDEM.xy"}
Paths == Glaciers \X FileNames

-----------------------------------------------------------------------------
(* Python and numpy helpers *)

MinOf(S) == CHOOSE m \in S : \A e \in S : m <= e
MaxOf(S) == CHOOSE m \in S : \A e \in S : m >= e

\* a slice bound k on a dimension of length n: negative counts from the end,
\* anything outside is clamped
SliceBound(b, n) ==
  IF b < 0 THEN (IF b + n < 0 THEN 0 ELSE b + n)
  ELSE (IF b > n THEN n ELSE b)

SliceLen(lo, hi, n) ==
  LET s == SliceBound(lo, n)
      e == SliceBound(hi, n)
  IN IF e > s THEN e - s ELSE 0

\* a[lo: hi] of a 1-D array
Slice1(a, lo, hi) ==
  LET s == SliceBound(lo, a.n)
      m == SliceLen(lo, hi, a.n)
  IN [n |-> m, d |-> [t \in 0..(m - 1) |-> a.d[s + t]]]

\* a[rlo: rhi, clo: chi] of a 2-D array
Slice2(a, rlo, rhi, clo, chi) ==
  LET rs == SliceBound(rlo, a.nr)
      cs == SliceBound(clo, a.nc)
      mr == SliceLen(rlo, rhi, a.nr)
      mc == SliceLen(clo, chi, a.nc)
  IN [nr |-> mr, nc |-> mc,
      d |-> [p \in (0..(mr - 1)) \X (0..(mc - 1)) |-> a.d[<<rs + p[1], cs + p[2]>>]]]

\* a[i] and a[i, j] raise IndexError outside the array (the loops only use
\* non-negative indices)
InRange1(a, i) == 0 <= i /\ i < a.n
InRange2(a, i, j) == 0 <= i /\ i < a.nr /\ 0 <= j /\ j < a.nc

\* np.where(a != Sentinel): the cells that differ from the sentinel
WhereNot(a) == {p \in DOMAIN a.d : a.d[p] # Sentinel}

Empty1 == [n |-> 0, d |-> [t \in {} |-> 0]]
Empty2 == [nr |-> 0, nc |-> 0, d |-> [p \in {} |-> 0]]
NoBox == <<0, 0, 0, 0>>

-----------------------------------------------------------------------------
(* The raw data *)

XVal(j) == 100 + j
YVal(i) == 200 + i
\* the value held by cell (i, j) of field f (1 vx, 2 vy, 3 ex, 4 ey, 5 surface)
FieldVal(f, i, j) == f * 1000 + 10 * i + j

Cells(r, c) == (0..(r - 1)) \X (0..(c - 1))

\* the cells of rows r0..r1 and columns c0..c1 (none when r0 > r1 or c0 > c1)
Rect(r0, r1, c0, c1) == (r0..r1) \X (c0..c1)

\* a raw grid: its shape and the cells of its first field that hold a measurement
RawGrid(r, c, cells) == [ny |-> r, nx |-> c, valid |-> cells]

SurfGrids == {RawGrid(r, c, Cells(r, c)) : r \in 0..MaxSurf, c \in 0..MaxSurf}

\* a grid whose measured region leaves room for the margin on every side
DefaultGrid == RawGrid(5, 5, {<<2, 2>>})
DefaultSurf == RawGrid(1, 1, {<<0, 0>>})

\* read_geodat: the axes and one field of a raw grid
ReadGeodat(grid, f) ==
  [x |-> [n |-> grid.nx, d |-> [j \in 0..(grid.nx - 1) |-> XVal(j)]],
   y |-> [n |-> grid.ny, d |-> [i \in 0..(grid.ny - 1) |-> YVal(i)]],
   a |-> [nr |-> grid.ny, nc |-> grid.nx,
          d |-> [p \in Cells(grid.ny, grid.nx) |->
                   IF f = 1 /\ p \notin grid.valid THEN Sentinel
                   ELSE FieldVal(f, p[1], p[2])]]]

-----------------------------------------------------------------------------
(* Files *)

NoFile == [exists |-> FALSE, lines |-> <<>>]
NewFile == [exists |-> TRUE, lines |-> <<>>]
\* contents a file left by an earlier run may have: empty, or anything else
OldContents == {<<>>, <<<<0>>>>}
\* what wget stores when the download succeeds
RemoteLines == <<<<1>>>>
\* what the gap interpolation stores
PostLines == <<<<2>>>>

Exists(g, f) == fs[<<g, f>>].exists

-----------------------------------------------------------------------------
(* The windowing and export core, lines 56-85 *)

\* a detection that keeps the box inside the array
BoundingBoxClamped(rows, cols, m) ==
  <<IF MinOf(rows) - m < 0 THEN 0 ELSE MinOf(rows) - m, MaxOf(rows) + m,
    IF MinOf(cols) - m < 0 THEN 0 ELSE MinOf(cols) - m, MaxOf(cols) + m>>

\* (min(I)-m, max(I)+m), (min(J)-m, max(J)+m); the program uses m = 2
BoundingBox(rows, cols, m) ==
  <<MinOf(rows) - m, MaxOf(rows) + m, MinOf(cols) - m, MaxOf(cols) + m>>

RowsOf(cells) == {p[1] : p \in cells}
ColsOf(cells) == {p[2] : p \in cells}

\* a crop that leaves out the last row and the last column of the box
CropFieldExclusive(a, b) == Slice2(a, b[1], b[2], b[3], b[4])

\* a[imin: imax+1, jmin: jmax+1]
CropField(a, b) == Slice2(a, b[1], b[2] + 1, b[3], b[4] + 1)
\* x[jmin: jmax+1] and y[imin: imax+1]
CropX(a, b) == Slice1(a, b[3], b[4] + 1)
CropY(a, b) == Slice1(a, b[1], b[2] + 1)
BoxCols(b) == b[4] - b[3] + 1
BoxRows(b) == b[2] - b[1] + 1

\* '{0}\n{1}\n'.format(nx, ny)
Header(cols, rows) == <<<<cols>>, <<rows>>>>

\* the body of the loops, lines 82-85: one write per file, in the order of
\* flds.  acc[f] holds the lines written to file f so far; an index outside an
\* array raises IndexError, and the writes before it have happened.
WriteLine(xa, ya, flds, j, i, acc) ==
  LET bad == {f \in 1..Len(flds) :
                ~(InRange1(xa, j) /\ InRange1(ya, i) /\ InRange2(flds[f], i, j))}
  IN [lines |-> [f \in 1..Len(flds) |->
                   IF \A b \in bad : f < b
                   THEN Append(acc[f], <<xa.d[j], ya.d[i], flds[f].d[<<i, j>>]>>)
                   ELSE acc[f]],
      err |-> bad # {}]

\* for i in range(ny), line 81
RECURSIVE InnerLoop(_, _, _, _, _, _, _)
InnerLoop(xa, ya, flds, rows, j, i, acc) ==
  IF i >= rows THEN [lines |-> acc, err |-> FALSE]
  ELSE LET w == WriteLine(xa, ya, flds, j, i, acc)
       IN IF w.err THEN w ELSE InnerLoop(xa, ya, flds, rows, j, i + 1, w.lines)

\* an export that walks the rows in the outer loop and the columns in the inner
RECURSIVE InnerLoopByCols(_, _, _, _, _, _, _)
InnerLoopByCols(xa, ya, flds, cols, i, j, acc) ==
  IF j >= cols THEN [lines |-> acc, err |-> FALSE]
  ELSE LET w == WriteLine(xa, ya, flds, j, i, acc)
       IN IF w.err THEN w ELSE InnerLoopByCols(xa, ya, flds, cols, i, j + 1, w.lines)

RECURSIVE OuterLoopByRows(_, _, _, _, _, _, _)
OuterLoopByRows(xa, ya, flds, cols, rows, i, acc) ==
  IF i >= rows THEN [lines |-> acc, err |-> FALSE]
  ELSE LET w == InnerLoopByCols(xa, ya, flds, cols, i, 0, acc)
       IN IF w.err THEN w ELSE OuterLoopByRows(xa, ya, flds, cols, rows, i + 1, w.lines)

\* for j in range(nx), line 80
RECURSIVE OuterLoop(_, _, _, _, _, _, _)
OuterLoop(xa, ya, flds, cols, rows, j, acc) ==
  IF j >= cols THEN [lines |-> acc, err |-> FALSE]
  ELSE LET w == InnerLoop(xa, ya, flds, rows, j, 0, acc)
       IN IF w.err THEN w ELSE OuterLoop(xa, ya, flds, cols, rows, j + 1, w.lines)

WriteRecordsOf(xa, ya, flds, cols, rows, before) ==
  OuterLoop(xa, ya, flds, cols, rows, 0, before)

-----------------------------------------------------------------------------
(* main *)

Glacier == IF pc \in {"vel_mkdir", "vel_check", "vel_read", "vel_where", "vel_box",
                      "vel_crop", "vel_open", "vel_header", "vel_records",
                      "vel_close", "vel_done"}
           THEN VelOrder[k]
           ELSE IF pc \in {"bed_fetch", "bed_done"} THEN BedOrder[k]
           ELSE SurfOrder[k]

NotRaised == [exc |-> "none", at |-> ""]

Fail(exc) ==
  /\ raised' = [exc |-> exc, at |-> pc]
  /\ status' = 1
  /\ pc' = "exit"

env == <<dem_source, data, fs0, net, sif>>
locals == <<x, y, vx, vy, ex, ey, I, J, box, nx, ny>>

\* an argument parser that accepts any --dem value
ParseArgsUnchecked ==
  /\ pc = "start"
  /\ pc' = "vel_mkdir"
  /\ k' = 1
  /\ UNCHANGED <<env, out, status, raised, dirs, fs, reads, downloads, locals, opened>>

\* lines 24-35
ParseArgs ==
  /\ pc = "start"
  /\ IF dem_source \notin DemSources
     THEN /\ out' = Append(out, <<"Unrecognized DEM source", dem_source>>)
          /\ status' = 1
          /\ pc' = "exit"
          /\ k' = k
     ELSE /\ pc' = "vel_mkdir"
          /\ k' = 1
          /\ UNCHANGED <<out, status>>
  /\ UNCHANGED <<env, raised, dirs, fs, reads, downloads, locals, opened>>

\* lines 38-40
VelMkdir ==
  /\ pc = "vel_mkdir"
  /\ dirs' = dirs \cup {Glacier}
  /\ pc' = "vel_check"
  /\ UNCHANGED <<env, status, raised, out, fs, reads, downloads, k, locals, opened>>

\* a check that skips the glaciers without velocity files
VelocityNotMade(g) == ~(\E f \in VelFileSet : Exists(g, f))

\* lines 43-46: the condition under which the velocity step is skipped
VelocityMade(g) == \E f \in VelFileSet : Exists(g, f)

VelCheck ==
  /\ pc = "vel_check"
  /\ pc' = IF ~VelocityMade(Glacier) THEN "vel_read" ELSE "vel_done"
  /\ UNCHANGED <<env, status, raised, out, dirs, fs, reads, downloads, k, locals, opened>>

\* lines 49-53
ReadVelocity ==
  /\ pc = "vel_read"
  /\ LET grid == data.vel[Glacier]
     IN /\ x' = ReadGeodat(grid, 1).x
        /\ y' = ReadGeodat(grid, 1).y
        /\ vx' = ReadGeodat(grid, 1).a
        /\ vy' = ReadGeodat(grid, 2).a
        /\ ex' = ReadGeodat(grid, 3).a
        /\ ey' = ReadGeodat(grid, 4).a
  /\ reads' = reads \cup {<<Glacier, e>> : e \in {"vx", "vy", "ex", "ey"}}
  /\ pc' = "vel_where"
  /\ UNCHANGED <<env, status, raised, out, dirs, fs, downloads, k, I, J, box, nx, ny, opened>>

\* line 56
FindMeasured ==
  /\ pc = "vel_where"
  /\ I' = RowsOf(WhereNot(vx))
  /\ J' = ColsOf(WhereNot(vx))
  /\ pc' = "vel_box"
  /\ UNCHANGED <<env, status, raised, out, dirs, fs, reads, downloads, k,
                 x, y, vx, vy, ex, ey, box, nx, ny, opened>>

\* a detection that takes the whole array when no cell is measured
ComputeBoxOrWholeArray ==
  /\ pc = "vel_box"
  /\ box' = IF I = {} THEN <<0, vx.nr - 1, 0, vx.nc - 1>> ELSE BoundingBox(I, J, Margin)
  /\ I' = {}
  /\ J' = {}
  /\ pc' = "vel_crop"
  /\ UNCHANGED <<env, status, raised, out, dirs, fs, reads, downloads, k,
                 x, y, vx, vy, ex, ey, nx, ny, opened>>

\* lines 57-59: min() of an empty sequence raises ValueError
ComputeBox ==
  /\ pc = "vel_box"
  /\ IF I = {}
     THEN /\ Fail("ValueError")
          /\ UNCHANGED <<I, J, box>>
     ELSE /\ box' = BoundingBox(I, J, Margin)
          /\ I' = {}
          /\ J' = {}
          /\ pc' = "vel_crop"
          /\ UNCHANGED <<status, raised>>
  /\ UNCHANGED <<env, out, dirs, fs, reads, downloads, k, x, y, vx, vy, ex, ey, nx, ny, opened>>

\* lines 61-69
CropFields ==
  /\ pc = "vel_crop"
  /\ vx' = CropField(vx, box)
  /\ vy' = CropField(vy, box)
  /\ ex' = CropField(ex, box)
  /\ ey' = CropField(ey, box)
  /\ x' = CropX(x, box)
  /\ y' = CropY(y, box)
  /\ nx' = BoxCols(box)
  /\ ny' = BoxRows(box)
  /\ pc' = "vel_open"
  /\ UNCHANGED <<env, status, raised, out, dirs, fs, reads, downloads, k, I, J, box, opened>>

VelPath(n) == <<Glacier, VelFiles[n]>>
VelPaths == {VelPath(n) : n \in 1..4}

\* lines 72-75: open(..., 'w') creates the file or empties it
OpenOutputs ==
  /\ pc = "vel_open"
  /\ fs' = [p \in Paths |-> IF p \in VelPaths THEN NewFile ELSE fs[p]]
  /\ opened' = VelPaths
  /\ pc' = "vel_header"
  /\ UNCHANGED <<env, status, raised, out, dirs, reads, downloads, k, locals>>

\* lines 77-78
WriteHeaders ==
  /\ pc = "vel_header"
  /\ fs' = [p \in Paths |->
              IF p \in opened THEN [fs[p] EXCEPT !.lines = @ \o Header(nx, ny)] ELSE fs[p]]
  /\ pc' = "vel_records"
  /\ UNCHANGED <<env, status, raised, out, dirs, reads, downloads, k, locals, opened>>

\* lines 80-85
WriteRecords ==
  /\ pc = "vel_records"
  /\ LET w == WriteRecordsOf(x, y, <<vx, vy, ex, ey>>, nx, ny,
                             [n \in 1..4 |-> fs[VelPath(n)].lines])
     IN /\ fs' = [p \in Paths |->
                    IF p \in VelPaths
                    THEN [fs[p] EXCEPT !.lines =
                            w.lines[CHOOSE n \in 1..4 : VelPath(n) = p]]
                    ELSE fs[p]]
        /\ IF w.err
           THEN Fail("IndexError")
           ELSE /\ pc' = "vel_close"
                /\ UNCHANGED <<status, raised>>
  /\ UNCHANGED <<env, out, dirs, reads, downloads, k, locals, opened>>

\* lines 87-91
CloseOutputs ==
  /\ pc = "vel_close"
  /\ opened' = {}
  /\ vx' = Empty2
  /\ vy' = Empty2
  /\ ex' = Empty2
  /\ ey' = Empty2
  /\ pc' = "vel_done"
  /\ UNCHANGED <<env, status, raised, out, dirs, fs, reads, downloads, k, x, y, I, J, box, nx, ny>>

\* line 93 and the head of the loop, line 38
VelDone ==
  /\ pc = "vel_done"
  /\ out' = Append(out, <<"Done making velocity data for", Glacier>>)
  /\ IF k < Len(VelOrder)
     THEN /\ k' = k + 1
          /\ pc' = "vel_mkdir"
     ELSE /\ k' = 1
          /\ pc' = "bed_fetch"
  /\ UNCHANGED <<env, status, raised, dirs, fs, reads, downloads, locals, opened>>

\* os.system("wget <url> -P <glacier>"): the file appears when the host serves it
Wget(g, f) ==
  /\ downloads' = downloads \cup {<<g, f>>}
  /\ fs' = IF net THEN [fs EXCEPT ![<<g, f>>] = [exists |-> TRUE, lines |-> RemoteLines]]
           ELSE fs

\* lines 104-108
BedFetch ==
  /\ pc = "bed_fetch"
  /\ IF ~Exists(Glacier, "zbDEM.xy")
     THEN Wget(Glacier, "zbDEM.xy")
     ELSE UNCHANGED <<downloads, fs>>
  /\ pc' = "bed_done"
  /\ UNCHANGED <<env, status, raised, out, dirs, reads, k, locals, opened>>

\* line 110 and the head of the loop, line 104
BedDone ==
  /\ pc = "bed_done"
  /\ out' = Append(out, <<"Done making bed elevation data for", Glacier>>)
  /\ IF k < Len(BedOrder)
     THEN /\ k' = k + 1
          /\ pc' = "bed_fetch"
     ELSE /\ k' = 1
          /\ pc' = "surf_fetch"
  /\ UNCHANGED <<env, status, raised, dirs, fs, reads, downloads, locals, opened>>

\* lines 115-118
SurfFetch ==
  /\ pc = "surf_fetch"
  /\ IF ~Exists(Glacier, "zsDEM.xy")
     THEN Wget(Glacier, "zsDEM.xy")
     ELSE UNCHANGED <<downloads, fs>>
  /\ pc' = "surf_done"
  /\ UNCHANGED <<env, status, raised, out, dirs, reads, k, locals, opened>>

\* line 120 and the head of the loop, line 115
SurfDone ==
  /\ pc = "surf_done"
  /\ out' = Append(out, <<"Done making surface elevation for", Glacier>>)
  /\ IF k < Len(SurfOrder)
     THEN /\ k' = k + 1
          /\ pc' = "surf_fetch"
     ELSE /\ k' = 1
          /\ pc' = "jak_check"
  /\ UNCHANGED <<env, status, raised, dirs, fs, reads, downloads, locals, opened>>

JakPath == <<"jakobshavn", "zsDEM.xy">>

\* line 124
JakCheck ==
  /\ pc = "jak_check"
  /\ pc' = IF ~Exists("jakobshavn", "zsDEM.xy") THEN "jak_read" ELSE "jak_done"
  /\ UNCHANGED <<env, status, raised, out, dirs, fs, reads, downloads, k, locals, opened>>

\* lines 126-128
JakRead ==
  /\ pc = "jak_read"
  /\ x' = ReadGeodat(data.surf, 5).x
  /\ y' = ReadGeodat(data.surf, 5).y
  /\ vx' = ReadGeodat(data.surf, 5).a
  /\ nx' = ReadGeodat(data.surf, 5).x.n
  /\ ny' = ReadGeodat(data.surf, 5).y.n
  /\ reads' = reads \cup {<<"jakobshavn", "dem13Mar.smooth">>}
  /\ pc' = "jak_write"
  /\ UNCHANGED <<env, status, raised, out, dirs, fs, downloads, k, vy, ex, ey, I, J, box, opened>>

\* lines 131-136
JakWrite ==
  /\ pc = "jak_write"
  /\ LET w == WriteRecordsOf(x, y, <<vx>>, nx, ny, <<Header(nx, ny)>>)
     IN /\ fs' = [fs EXCEPT ![JakPath] = [exists |-> TRUE, lines |-> w.lines[1]]]
        /\ IF w.err
           THEN /\ Fail("IndexError")
                /\ opened' = {JakPath}
           ELSE /\ pc' = "jak_done"
                /\ UNCHANGED <<status, raised, opened>>
  /\ UNCHANGED <<env, out, dirs, reads, downloads, k, locals>>

\* line 138
JakDone ==
  /\ pc = "jak_done"
  /\ out' = Append(out, <<"Done making surface elevation for", "Jakobshavn">>)
  /\ pc' = "post"
  /\ UNCHANGED <<env, status, raised, dirs, fs, reads, downloads, k, locals, opened>>

\* line 142: postprocess_jak.main() interpolates over gaps of the Jakobshavn
\* velocities; whether it stores the result over UDEM.xy and VDEM.xy is left open
PostprocessJak ==
  /\ pc = "post"
  /\ \E rewrite \in BOOLEAN :
       fs' = [p \in Paths |->
                IF rewrite /\ p \in {<<"jakobshavn", "UDEM.xy">>, <<"jakobshavn", "VDEM.xy">>}
                THEN [exists |-> TRUE, lines |-> PostLines]
                ELSE fs[p]]
  /\ pc' = "post_done"
  /\ UNCHANGED <<env, status, raised, out, dirs, reads, downloads, k, locals, opened>>

\* line 144 and the return of main
PostDone ==
  /\ pc = "post_done"
  /\ out' = Append(out, <<"Done post-processing Jakobshavn velocity data", "">>)
  /\ status' = 0
  /\ pc' = "exit"
  /\ UNCHANGED <<env, raised, dirs, fs, reads, downloads, k, locals, opened>>

-----------------------------------------------------------------------------
(* The states main starts from *)

SifIdle == [pc |-> "idle"]

InitProgram ==
  /\ pc = "start"
  /\ status = -1
  /\ raised = NotRaised
  /\ out = <<>>
  /\ fs = fs0
  /\ reads = {}
  /\ downloads = {}
  /\ k = 0
  /\ x = Empty1
  /\ y = Empty1
  /\ vx = Empty2
  /\ vy = Empty2
  /\ ex = Empty2
  /\ ey = Empty2
  /\ I = {}
  /\ J = {}
  /\ box = NoBox
  /\ nx = 0
  /\ ny = 0
  /\ opened = {}
  /\ sif = SifIdle

DefaultData == [vel |-> [g \in Glaciers |-> DefaultGrid], surf |-> DefaultSurf]

\* an empty working directory; the raw data of one glacier, or the surface
\* grid, varies.  A velocity grid has MaxDim-1 or MaxDim rows and columns;
\* its measured cells are a rectangle anywhere in it, or none.
InitData ==
  /\ dem_source = "morlighem"
  /\ net = TRUE
  /\ fs0 = [p \in Paths |-> NoFile]
  /\ dirs = {}
  /\ \/ \E g \in Glaciers, r \in (MaxDim - 1)..MaxDim, c \in (MaxDim - 1)..MaxDim :
          \E r0 \in 0..(r - 1), r1 \in 0..(r - 1), c0 \in 0..(c - 1), c1 \in 0..(c - 1) :
            data = [DefaultData EXCEPT !.vel[g] = RawGrid(r, c, Rect(r0, r1, c0, c1))]
     \/ \E grid \in SurfGrids :
          data = [DefaultData EXCEPT !.surf = grid]

\* one glacier directory holds files of an earlier run; the flag and the
\* remote host vary
InitFiles ==
  /\ dem_source \in DemSources \cup {"bedmap"}
  /\ net \in BOOLEAN
  /\ data = DefaultData
  /\ \E g \in Glaciers, present \in SUBSET FileNames, old \in OldContents :
       /\ fs0 = [p \in Paths |->
                   IF p[1] = g /\ p[2] \in present
                   THEN [exists |-> TRUE, lines |-> old]
                   ELSE NoFile]
       /\ dirs = IF present = {} THEN {} ELSE {g}

Init ==
  /\ (InitData \/ InitFiles)
  /\ InitProgram

Next ==
  \/ ParseArgs
  \/ VelMkdir
  \/ VelCheck
  \/ ReadVelocity
  \/ FindMeasured
  \/ ComputeBox
  \/ CropFields
  \/ OpenOutputs
  \/ WriteHeaders
  \/ WriteRecords
  \/ CloseOutputs
  \/ VelDone
  \/ BedFetch
  \/ BedDone
  \/ SurfFetch
  \/ SurfDone
  \/ JakCheck
  \/ JakRead
  \/ JakWrite
  \/ JakDone
  \/ PostprocessJak
  \/ PostDone

Spec == Init /\ [][Next]_vars


-----------------------------------------------------------------------------
(* Properties of main *)

VelPcs == {"vel_mkdir", "vel_check", "vel_read", "vel_where", "vel_box", "vel_crop",
           "vel_open", "vel_header", "vel_records", "vel_close", "vel_done"}
\* the raw grid of the glacier whose velocity step is running
Grid == data.vel[VelOrder[k]]
\* the box of the running velocity step has been computed
HasBox == \/ pc \in {"vel_crop", "vel_open", "vel_header", "vel_records", "vel_close"}
          \/ (pc = "exit" /\ raised.at = "vel_records")
OutOfRange(b, grid) == b[1] < 0 \/ b[3] < 0 \/ b[2] >= grid.ny \/ b[4] >= grid.nx
Printed(msg) == \E n \in 1..Len(out) : out[n] = msg
AllVelFilesAtStart(g) == \A f \in VelFileSet : fs0[<<g, f>>].exists
\* postprocess_jak.main() has run
PostRan == pc = "post_done" \/ status = 0

\* C1: the box computed from velocity-x reaches exactly Margin cells beyond the
\* smallest and the largest row and column that hold a measured cell, also
\* where that lies outside the array, so every measured cell lies in the box
\* with the margin taken off.
C1_BoxIsTightPlusMargin ==
  HasBox =>
    /\ \A p \in Grid.valid :
         /\ box[1] + Margin <= p[1] /\ p[1] <= box[2] - Margin
         /\ box[3] + Margin <= p[2] /\ p[2] <= box[4] - Margin
    /\ \E p \in Grid.valid : p[1] = box[1] + Margin
    /\ \E p \in Grid.valid : p[1] = box[2] - Margin
    /\ \E p \in Grid.valid : p[2] = box[3] + Margin
    /\ \E p \in Grid.valid : p[2] = box[4] - Margin

\* a box that starts before row 0, ends after the last column and spans
\* several measured rows
C1_Witness ==
  /\ pc = "vel_crop"
  /\ box[1] < 0
  /\ box[4] >= Grid.nx
  /\ box[2] - box[1] > 2 * Margin

\* C2: after the crop the four fields have the shape of the box, the axes have
\* the lengths of the fields, and the header values nx and ny are that shape.
C2_CroppedShapesMatchHeader ==
  (pc \in {"vel_open", "vel_header", "vel_records", "vel_close"}) =>
    /\ \A a \in {vx, vy, ex, ey} : a.nr = BoxRows(box) /\ a.nc = BoxCols(box)
    /\ y.n = vx.nr
    /\ x.n = vx.nc
    /\ nx = vx.nc
    /\ ny = vx.nr
    /\ (pc \in {"vel_records", "vel_close"} =>
          \A p \in VelPaths : fs[p].lines[1] = <<vx.nc>> /\ fs[p].lines[2] = <<vx.nr>>)

\* the part of C2 that does not depend on the box lying inside the array: the
\* four fields have one shape, and the four headers are equal
C2_FieldsAgree ==
  (pc \in {"vel_records", "vel_close"}) =>
    /\ \A a \in {vy, ex, ey} : a.nr = vx.nr /\ a.nc = vx.nc
    /\ \A p \in VelPaths : SubSeq(fs[p].lines, 1, 2) = Header(BoxCols(box), BoxRows(box))

\* C2 holds of every box that lies inside the array
C2_HoldsInsideTheArray ==
  (HasBox /\ ~OutOfRange(box, Grid)) => C2_CroppedShapesMatchHeader

\* the expected content of an exported file: cols, rows, then for each column
\* j and each row i the record at position j*rows + i
FileIs(lines, cols, rows, X(_), Y(_), F(_, _)) ==
  /\ Len(lines) = 2 + cols * rows
  /\ lines[1] = <<cols>>
  /\ lines[2] = <<rows>>
  /\ \A j \in 0..(cols - 1), i \in 0..(rows - 1) :
       lines[2 + j * rows + i + 1] = <<X(j), Y(i), F(i, j)>>

\* the cell (i, j) of field f of a raw grid
RawCell(grid, f, i, j) ==
  IF f = 1 /\ <<i, j>> \notin grid.valid THEN Sentinel ELSE FieldVal(f, i, j)

\* C3: a completed export holds nx, ny and then nx*ny records, the record of
\* column j and row i at position j*ny + i, built from the axes and the field
\* that were exported; so does the Jakobshavn surface file.
C3_ExportIsColumnMajor ==
  /\ (pc = "vel_close") =>
       /\ x.n = nx
       /\ y.n = ny
       /\ \A n \in 1..4 :
            FileIs(fs[VelPath(n)].lines, nx, ny,
                   LAMBDA j : XVal(box[3] + j),
                   LAMBDA i : YVal(box[1] + i),
                   LAMBDA i, j : RawCell(Grid, n, box[1] + i, box[3] + j))
  /\ (pc = "jak_done" /\ <<"jakobshavn", "dem13Mar.smooth">> \in reads) =>
       FileIs(fs[JakPath].lines, data.surf.nx, data.surf.ny,
              XVal, YVal, LAMBDA i, j : FieldVal(5, i, j))

\* an export of more rows than columns that holds a cell without measurement
C3_Witness ==
  /\ pc = "vel_close"
  /\ ny > nx
  /\ \E n \in 1..Len(fs[VelPath(1)].lines) : fs[VelPath(1)].lines[n][Len(fs[VelPath(1)].lines[n])] = Sentinel

\* C4: a glacier whose four velocity files exist at the start is not read, not
\* cropped and not exported, and its files keep their content until the gap
\* interpolation; no download or generation is started for a zbDEM.xy or
\* zsDEM.xy that exists.
C4_ExistingOutputsAreSkipped ==
  /\ \A g \in Glaciers : AllVelFilesAtStart(g) =>
       /\ \A e \in {"vx", "vy", "ex", "ey"} : <<g, e>> \notin reads
       /\ ~(pc \in (VelPcs \ {"vel_mkdir", "vel_check", "vel_done"}) /\ VelOrder[k] = g)
       /\ (~PostRan => \A f \in VelFileSet : fs[<<g, f>>] = fs0[<<g, f>>])
  /\ \A g \in Glaciers, f \in {"zbDEM.xy", "zsDEM.xy"} : fs0[<<g, f>>].exists =>
       /\ <<g, f>> \notin downloads
       /\ fs[<<g, f>>] = fs0[<<g, f>>]
  /\ fs0[JakPath].exists => <<"jakobshavn", "dem13Mar.smooth">> \notin reads

\* a glacier is reported done whose four files, not valid exports, were left
\* by an earlier run
C4_Witness ==
  /\ Printed(<<"Done making velocity data for", "kangerd">>)
  /\ AllVelFilesAtStart("kangerd")
  /\ fs0[<<"kangerd", "UDEM.xy">>].lines = <<<<0>>>>
  /\ fs0[<<"kangerd", "zbDEM.xy">>].exists
  /\ pc = "surf_fetch"

\* C5: with a box that leaves the array the program stops with an error before
\* it crops: no file of the glacier is created or written.
C5_OutOfRangeBoxFailsBeforeCrop ==
  (HasBox /\ OutOfRange(box, Grid)) =>
    /\ pc = "vel_crop" \/ pc = "exit"
    /\ \A p \in {VelOrder[k]} \X VelFileSet : fs[p] = fs0[p]

\* the 5x5 example: measured rows 1-2 and columns 1-2 give the box
\* (-1, 4, -1, 4); the crop keeps the last row and column only, the four files
\* get the header 6, 6 and the record of cell (4, 4), and the next index raises
C5_ExampleWrapsAndWrites ==
  (k = 1 /\ Grid = RawGrid(5, 5, Rect(1, 2, 1, 2)) /\ pc = "exit") =>
    /\ box = <<-1, 4, -1, 4>>
    /\ raised = [exc |-> "IndexError", at |-> "vel_records"]
    /\ fs[<<"helheim", "UDEM.xy">>].lines = <<<<6>>, <<6>>, <<XVal(4), YVal(4), Sentinel>>>>
    /\ fs[<<"helheim", "VDEM.xy">>].lines = <<<<6>>, <<6>>, <<XVal(4), YVal(4), FieldVal(2, 4, 4)>>>>

\* what the program does with such a box: it ends with IndexError in the
\* record loop, after the files were created and the header written
C5_OutOfRangeBoxEndsInIndexError ==
  (HasBox /\ OutOfRange(box, Grid) /\ pc \notin {"vel_crop", "vel_open", "vel_header", "vel_records"}) =>
    /\ pc = "exit"
    /\ raised = [exc |-> "IndexError", at |-> "vel_records"]

\* C6: a velocity-x field without any measured cell ends the program with an
\* error when the box is computed, and none of the four files of the glacier
\* exists then.
C6_EmptyFieldFailsBeforeFiles ==
  \A g \in Glaciers : (<<g, "vx">> \in reads /\ data.vel[g].valid = {}) =>
    /\ VelOrder[k] = g
    /\ \/ pc \in {"vel_where", "vel_box"}
       \/ (pc = "exit" /\ status = 1 /\ raised = [exc |-> "ValueError", at |-> "vel_box"])
    /\ \A f \in VelFileSet : ~fs[<<g, f>>].exists

C6_Witness ==
  /\ pc = "exit"
  /\ raised.exc = "ValueError"
  /\ data.vel["kangerd"].valid = {}
  /\ fs[<<"helheim", "UDEM.xy">>].exists

\* C8: with a --dem value other than morlighem and cresis the program prints
\* the usage message and exits with status 1; no directory is created, no grid
\* read, no file written and no download started.
C8_BadDemSourceExitsFirst ==
  (dem_source \notin {"morlighem", "cresis"} /\ pc # "start") =>
    /\ pc = "exit"
    /\ status = 1
    /\ out = <<<<"Unrecognized DEM source", dem_source>>>>
    /\ dirs = {g \in Glaciers : \E f \in FileNames : fs0[<<g, f>>].exists}
    /\ reads = {}
    /\ downloads = {}
    /\ fs = fs0

C8_Witness ==
  /\ dem_source = "bedmap"
  /\ pc = "exit"
  /\ status = 1
  /\ \E p \in Paths : fs0[p].exists

\* C10: a glacier whose velocity data are reported done has its four files.
C10_DoneImpliesAllFourFiles ==
  \A g \in Glaciers : Printed(<<"Done making velocity data for", g>>) =>
    \A f \in VelFileSet : fs[<<g, f>>].exists

-----------------------------------------------------------------------------
(* Detection and crop without margin, applied twice (lines 56-58 and 61) *)

\* largest number of rows and of columns of a field that is cropped tightly
MaxTight == 3

MainIdle ==
  /\ dem_source = "morlighem"
  /\ net = TRUE
  /\ data = DefaultData
  /\ fs0 = [p \in Paths |-> NoFile]
  /\ dirs = {}
  /\ status = -1
  /\ raised = NotRaised
  /\ out = <<>>
  /\ fs = fs0
  /\ reads = {}
  /\ downloads = {}
  /\ k = 0
  /\ x = Empty1
  /\ y = Empty1
  /\ vy = Empty2
  /\ ey = Empty2
  /\ I = {}
  /\ J = {}
  /\ box = NoBox
  /\ nx = 0
  /\ ny = 0
  /\ opened = {}

\* every field of up to MaxTight rows and columns, each cell measured or not;
\* ex keeps the field as it was read
InitTight ==
  /\ MainIdle
  /\ pc = "t_detect"
  /\ \E r \in 1..MaxTight, c \in 1..MaxTight :
       \E cells \in SUBSET Cells(r, c) :
         /\ vx = ReadGeodat(RawGrid(r, c, cells), 1).a
         /\ ex = vx
  /\ sif = SifIdle

tightFrame == <<env, status, out, dirs, fs, reads, downloads, k, x, y, vy, ex, ey,
                I, J, nx, ny, opened>>

\* lines 56-58 with margin 0
TightDetect ==
  /\ pc \in {"t_detect", "t_redetect"}
  /\ IF WhereNot(vx) = {}
     THEN /\ Fail("ValueError")
          /\ box' = box
     ELSE /\ box' = BoundingBox(RowsOf(WhereNot(vx)), ColsOf(WhereNot(vx)), 0)
          /\ pc' = IF pc = "t_detect" THEN "t_crop" ELSE "t_done"
          /\ UNCHANGED <<status, raised>>
  /\ UNCHANGED <<tightFrame, vx>>

\* line 61
TightCrop ==
  /\ pc = "t_crop"
  /\ vx' = CropField(vx, box)
  /\ pc' = "t_redetect"
  /\ UNCHANGED <<tightFrame, status, raised, box>>

NextTight == TightDetect \/ TightCrop

SpecTight == InitTight /\ [][NextTight]_vars

\* C7: cropping a field with a measured cell to its box of margin 0 and
\* detecting the box of margin 0 of the result gives the whole result, rows
\* 0..rows-1 and columns 0..cols-1, and the result spans the measured cells of
\* the field.
C7_TightCropIsIdempotent ==
  /\ (pc = "t_done") =>
       /\ box = <<0, vx.nr - 1, 0, vx.nc - 1>>
       /\ \E lo \in 0..(ex.nr - 1), hi \in 0..(ex.nr - 1) :
            /\ vx.nr = hi - lo + 1
            /\ \E c \in 0..(ex.nc - 1) : ex.d[<<lo, c>>] # Sentinel
            /\ \E c \in 0..(ex.nc - 1) : ex.d[<<hi, c>>] # Sentinel
            /\ \A p \in DOMAIN ex.d : ex.d[p] # Sentinel => (lo <= p[1] /\ p[1] <= hi)
       /\ \E lo \in 0..(ex.nc - 1), hi \in 0..(ex.nc - 1) :
            /\ vx.nc = hi - lo + 1
            /\ \E r \in 0..(ex.nr - 1) : ex.d[<<r, lo>>] # Sentinel
            /\ \E r \in 0..(ex.nr - 1) : ex.d[<<r, hi>>] # Sentinel
            /\ \A p \in DOMAIN ex.d : ex.d[p] # Sentinel => (lo <= p[2] /\ p[2] <= hi)
  /\ (pc = "exit") =>
       (raised.at = "t_detect" /\ \A p \in DOMAIN ex.d : ex.d[p] = Sentinel)

\* a tight crop of several rows and columns that keeps unmeasured cells and
\* cuts rows and columns off
C7_Witness ==
  /\ pc = "t_done"
  /\ vx.nr > 1
  /\ vx.nc > 1
  /\ vx.nr < ex.nr
  /\ \E p \in DOMAIN vx.d : vx.d[p] = Sentinel

-----------------------------------------------------------------------------
(* generate_sif_file *)

SifGlaciers == {"jakobshavn", "helheim", "kangerd"}
\* the values glacier_name is called with
SifNames == SifGlaciers \cup {"disko", "Helheim"}
\* str.title() of the names in use
Title(name) ==
  CASE name = "jakobshavn" -> "Jakobshavn"
    [] name = "helheim" -> "Helheim"
    [] name = "kangerd" -> "Kangerd"
    [] name = "disko" -> "Disko"
    [] OTHER -> name
\* "elmer/Robin_Beta_" + glacier_name.title() + ".sif", as directory, stem, extension
DefaultSif(name) == <<"elmer", "Robin_Beta_", Title(name), ".sif">>
CustomSif == <<".", "run", "", ".sif">>
SifPaths == {DefaultSif(n) : n \in SifNames} \cup {CustomSif}
\* regularization and max_iterations with their defaults
Regularizations == {"1.0e10", "1.0e8"}
Iterations == {50, 100}
\* the template with {0}, {1} and {2} filled in
SifText(reg, name, iters) == [Lambda |-> reg, mesh |-> name, max_iter |-> iters]
OldSif == SifText("", "", 0)
NoSif == [exists |-> FALSE, text |-> OldSif]

InitSif ==
  /\ MainIdle
  /\ pc = "idle"
  /\ vx = Empty2
  /\ ex = Empty2
  /\ \E name \in SifNames, fname \in {<<>>, CustomSif}, reg \in Regularizations,
        iters \in Iterations, present \in SUBSET SifPaths :
       sif = [pc |-> "validate", glacier_name |-> name, file_name |-> fname,
              regularization |-> reg, max_iterations |-> iters,
              path |-> <<>>, text |-> OldSif, raised |-> "none",
              fs0 |-> [p \in SifPaths |-> IF p \in present
                                          THEN [exists |-> TRUE, text |-> OldSif]
                                          ELSE NoSif],
              fs |-> [p \in SifPaths |-> IF p \in present
                                         THEN [exists |-> TRUE, text |-> OldSif]
                                         ELSE NoSif]]

main == <<pc, dem_source, status, raised, out, data, fs0, net, dirs, fs, reads,
          downloads, k, x, y, vx, vy, ex, ey, I, J, box, nx, ny, opened>>

\* a generator that takes any glacier name
SifValidateNothing ==
  /\ sif.pc = "validate"
  /\ sif' = [sif EXCEPT !.pc = "name"]
  /\ UNCHANGED main

\* lines 23-24
SifValidate ==
  /\ sif.pc = "validate"
  /\ sif' = IF sif.glacier_name \notin SifGlaciers
            THEN [sif EXCEPT !.pc = "raised", !.raised = "ValueError"]
            ELSE [sif EXCEPT !.pc = "name"]
  /\ UNCHANGED main

\* lines 26-27
SifDefaultName ==
  /\ sif.pc = "name"
  /\ sif' = [sif EXCEPT !.pc = "format",
                        !.path = IF sif.file_name = <<>>
                                 THEN DefaultSif(sif.glacier_name)
                                 ELSE sif.file_name]
  /\ UNCHANGED main

\* lines 30-381
SifFormat ==
  /\ sif.pc = "format"
  /\ sif' = [sif EXCEPT !.pc = "open",
                        !.text = SifText(sif.regularization, sif.glacier_name,
                                         sif.max_iterations)]
  /\ UNCHANGED main

\* line 383: open(file_name, "w") creates the file or empties it
SifOpen ==
  /\ sif.pc = "open"
  /\ sif' = [sif EXCEPT !.pc = "write",
                        !.fs[sif.path] = [exists |-> TRUE, text |-> OldSif]]
  /\ UNCHANGED main

\* line 384
SifWrite ==
  /\ sif.pc = "write"
  /\ sif' = [sif EXCEPT !.pc = "returned", !.fs[sif.path].text = sif.text]
  /\ UNCHANGED main

NextSif == SifValidate \/ SifDefaultName \/ SifFormat \/ SifOpen \/ SifWrite

SpecSif == InitSif /\ [][NextSif]_vars

\* C9: a glacier name other than helheim, jakobshavn and kangerd makes the call
\* fail with an error while every file is as it was, no file created and none
\* emptied; with one of the three names the call returns with the document in
\* the destination file.
C9_UnknownGlacierFailsBeforeOpen ==
  /\ (sif.pc # "idle" /\ sif.glacier_name \notin {"helheim", "jakobshavn", "kangerd"}
        /\ sif.pc # "validate") =>
       /\ sif.pc = "raised"
       /\ sif.raised = "ValueError"
       /\ sif.fs = sif.fs0
  /\ (sif.pc # "idle" /\ sif.glacier_name \in {"helheim", "jakobshavn", "kangerd"}) =>
       /\ sif.pc # "raised"
       /\ (sif.pc = "returned" =>
             LET dest == IF sif.file_name # <<>> THEN sif.file_name
                         ELSE IF sif.glacier_name = "helheim"
                              THEN <<"elmer", "Robin_Beta_", "Helheim", ".sif">>
                         ELSE IF sif.glacier_name = "kangerd"
                              THEN <<"elmer", "Robin_Beta_", "Kangerd", ".sif">>
                         ELSE <<"elmer", "Robin_Beta_", "Jakobshavn", ".sif">>
             IN /\ sif.fs[dest].exists
                /\ sif.fs[dest].text.Lambda = sif.regularization
                /\ sif.fs[dest].text.mesh = sif.glacier_name
                /\ sif.fs[dest].text.max_iter = sif.max_iterations
                /\ \A p \in SifPaths \ {dest} : sif.fs[p] = sif.fs0[p])

\* the call for disko has failed and the file it would have written exists
C9_Witness ==
  /\ sif.pc = "raised"
  /\ sif.glacier_name = "disko"
  /\ sif.file_name = <<>>
  /\ sif.fs[DefaultSif("disko")].exists

=============================================================================
